---------------------------- MODULE Spec2Model ----------------------------
(***************************************************************************)
(* Balance accounting and debt simplification of the expense splitter      *)
(* (BalanceView: calculateBalances and simplifyDebts).                     *)
(*                                                                         *)
(* Money is a JavaScript number in the source.  The model keeps amounts    *)
(* as exact integers in units of 1/60 of a cent, so that 0.01 is Tol = 60  *)
(* units and amount / splitBetween.length is exact for every list of one   *)
(* to five sharers.  Floating-point rounding is not modelled.              *)
(***************************************************************************)
EXTENDS Integers, Sequences, FiniteSets, TLC

VARIABLES
    people,       \* props.people: the roster, an array of names
    expenses,     \* props.expenses: the expense array
    guarded,      \* TRUE: calculateBalances of balance-view (length === 0 guard)
                  \* FALSE: calculateBalances of BalanceView.tsx (no guard)
    balances,     \* the balances object: keys in property order, val by key
    k,            \* number of expenses already handled by expenses.forEach
    creditors,    \* simplifyDebts: creditors array
    debtors,      \* simplifyDebts: debtors array
    i,            \* creditor cursor
    j,            \* debtor cursor
    settlements,  \* simplifyDebts: settlements array
    iters,        \* iterations of the while loop executed so far
    pc,           \* position in calculateBalances / simplifyDebts
    returned,     \* what the renders so far computed: [balances, settlements]
    result,       \* App: value returned by the last addPerson call
    now,          \* App: the millisecond clock read by Date.now()
    form,         \* ExpenseForm: the useState fields of the form
    legacyForm,   \* TRUE: the form of ExpenseForm.tsx
                  \* FALSE: the form of expense-form.tsx
    render        \* App: the people and expenses the handlers of the current
                  \* render closed over, and what they added since

vars == <<people, expenses, guarded, balances, k, creditors, debtors, i, j,
          settlements, iters, pc, returned, result, now, form, legacyForm,
          render>>

(***************************************************************************)
(* Numbers                                                                 *)
(***************************************************************************)
\* 0.01 in model units (1 unit = 1/6000 of the currency unit)
Tol == 60

Cents(n) == n * Tol

\* the bound on the length of the expense array drawn as input
MaxExpenses == 2
\* renders of BalanceView with the same props
MaxCalls == 2
\* App: last value of the millisecond clock
MaxClock == 2
\* App: expenses kept in the stored list
MaxStored == 2
\* App: add handlers of one render that run before the next render
MaxBatch == 2
\* ExpenseForm: expenses submitted before the form is left alone
MaxSubmits == 1

\* the value of amount / 0 for amount > 0: a number above every finite
\* amount that the inputs below can add up to
Infinity == Cents(10000000)

IsFinite(x) == -Infinity < x /\ x < Infinity

\* JavaScript + on numbers: a finite number plus Infinity is Infinity
Add(a, b) == IF IsFinite(a) /\ IsFinite(b) THEN a + b ELSE Infinity

\* mutant: the larger of the two amounts is transferred
MutMinIsMax(a, b) == IF a > b THEN a ELSE b

\* mutant: half of the smaller amount is transferred
MutMinHalved(a, b) == (IF a < b THEN a ELSE b) \div 2

Min(a, b) == IF a < b THEN a ELSE b

Abs(x) == IF x < 0 THEN -x ELSE x

RECURSIVE SumFun(_)
\* the sum of the values of a function with a finite domain
SumFun(f) ==
    IF DOMAIN f = {} THEN 0
    ELSE LET x == CHOOSE y \in DOMAIN f : TRUE
         IN f[x] + SumFun([y \in DOMAIN f \ {x} |-> f[y]])

Range(s) == {s[n] : n \in DOMAIN s}

(***************************************************************************)
(* Inputs                                                                  *)
(***************************************************************************)
\* names are ordinary property names; "7" is one that is an array index
Names == {"Alice", "Bob", "Charlie", "Dave", "7"}

\* names that are canonical array indices, with their numeric value
ArrayIndexValue == ("7" :> 7)

NoCustom == [n \in {} |-> 0]

Equal(amount, paidBy, splitBetween) ==
    [amount |-> amount, paidBy |-> paidBy, splitType |-> "equal",
     splitBetween |-> splitBetween, hasCustom |-> FALSE, customAmounts |-> NoCustom]

Custom(amount, paidBy, splitBetween, customAmounts) ==
    [amount |-> amount, paidBy |-> paidBy, splitType |-> "custom",
     splitBetween |-> splitBetween, hasCustom |-> TRUE, customAmounts |-> customAmounts]

CustomWithout(amount, paidBy, splitBetween) ==
    [amount |-> amount, paidBy |-> paidBy, splitType |-> "custom",
     splitBetween |-> splitBetween, hasCustom |-> FALSE, customAmounts |-> NoCustom]

RosterInputs ==
    { <<>>,
      <<"Alice", "Bob">>,
      <<"Alice", "Bob", "Charlie">>,
      <<"Charlie", "Alice", "Bob">>,
      <<"Bob", "7", "Alice">>,
      <<"Alice", "Bob", "Charlie", "Dave", "7">> }

ExpenseInputs ==
    { Equal(Cents(6000), "Alice", <<"Alice", "Bob", "Charlie">>),
      Equal(Cents(2), "Alice", <<"Alice", "Bob", "Charlie">>),
      Equal(Cents(2), "Alice", <<"Alice", "Bob">>),
      Equal(Cents(3), "Alice", <<>>),
      Equal(Cents(4), "Dave", <<"Bob", "Charlie">>),
      Equal(Cents(90), "Alice", <<"Alice", "Bob", "7">>),
      Equal(Cents(6), "Bob", <<"Alice", "Dave", "7">>),
      Equal(Cents(30), "Bob", <<"Bob">>),
      Equal(Cents(3), "Charlie", <<"Alice", "Bob">>),
      Equal(Cents(101), "Bob", <<"Alice">>),
      Equal(Cents(100), "Alice", <<"Bob">>),
      Equal(Cents(4), "Charlie", <<"Alice", "Bob", "Charlie", "Dave">>),
      Equal(Cents(5), "Dave", <<"Alice", "Bob", "Charlie", "Dave", "7">>),
      Custom(Cents(10000), "Bob", <<"Alice", "Bob", "Charlie">>,
             ("Alice" :> Cents(4000)) @@ ("Bob" :> Cents(3500)) @@ ("Charlie" :> Cents(2500))),
      Custom(Cents(7000), "Alice", <<"Bob", "Charlie">>,
             ("Bob" :> Cents(3000)) @@ ("Charlie" :> Cents(4000))),
      Custom(Cents(5), "Bob", <<"Alice", "Dave">>,
             ("Alice" :> Cents(2)) @@ ("Charlie" :> Cents(3))),
      CustomWithout(Cents(5), "Bob", <<"Alice">>),
      Custom(Cents(900), "Alice", <<"Charlie", "Dave", "7">>,
             ("Charlie" :> Cents(400)) @@ ("Dave" :> Cents(300)) @@ ("7" :> Cents(200))),
      Custom(Cents(400), "Bob", <<"Alice">>, ("Alice" :> Cents(400))) }

ExpenseLists == UNION {[1..n -> ExpenseInputs] : n \in 0..MaxExpenses}

(***************************************************************************)
(* calculateBalances                                                       *)
(***************************************************************************)
ZeroEntry == [paid |-> 0, owes |-> 0, balance |-> 0]

RECURSIVE InsertByIndex(_, _)
\* s is sorted by ArrayIndexValue; put name n at its place
InsertByIndex(s, n) ==
    IF s = <<>> THEN <<n>>
    ELSE IF ArrayIndexValue[n] < ArrayIndexValue[Head(s)] THEN <<n>> \o s
    ELSE <<Head(s)>> \o InsertByIndex(Tail(s), n)

RECURSIVE IndexKeys(_)
IndexKeys(s) ==
    IF s = <<>> THEN <<>>
    ELSE IF s[Len(s)] \in DOMAIN ArrayIndexValue
         THEN InsertByIndex(IndexKeys(SubSeq(s, 1, Len(s) - 1)), s[Len(s)])
         ELSE IndexKeys(SubSeq(s, 1, Len(s) - 1))

RECURSIVE FirstOccurrences(_)
FirstOccurrences(s) ==
    IF s = <<>> THEN <<>>
    ELSE LET r == FirstOccurrences(SubSeq(s, 1, Len(s) - 1))
         IN IF s[Len(s)] \in Range(r) THEN r ELSE Append(r, s[Len(s)])

IsStringKey(n) == n \notin DOMAIN ArrayIndexValue

\* property order of an object whose keys were created in the order s:
\* array-index keys ascending, then the other keys in creation order
ObjectKeys(s) ==
    IndexKeys(FirstOccurrences(s)) \o SelectSeq(FirstOccurrences(s), IsStringKey)

\* mutant: the balances object outlives the call and is filled again
MutNewBalancesKept(roster) ==
    IF returned = <<>>
    THEN [keys |-> ObjectKeys(roster), val |-> [p \in Range(roster) |-> ZeroEntry]]
    ELSE returned[Len(returned)].balances

\* people.forEach(person => balances[person] = {paid: 0, owes: 0, balance: 0})
NewBalances(roster) ==
    [keys |-> ObjectKeys(roster), val |-> [p \in Range(roster) |-> ZeroEntry]]

HasEntry(val, person) == person \in DOMAIN val

\* mutant: the payer is counted on top of the sharers
MutPerPersonPlusOne(amount, n) == amount \div (n + 1)

\* mutant: only the sharers that are in the roster count in the divisor
MutPerPersonRosterSharers(amount, n) ==
    LET e == expenses[k + 1]
        inRoster == {m \in DOMAIN e.splitBetween : e.splitBetween[m] \in Range(people)}
    IN IF inRoster = {} THEN Infinity ELSE amount \div Cardinality(inRoster)

PerPerson(amount, n) == IF n = 0 THEN Infinity ELSE amount \div n

\* mutant: a custom split is charged like an equal split
MutCustomShareEqual(e, person) == e.amount \div Len(e.splitBetween)

\* expense.customAmounts[person] || 0
CustomShare(e, person) ==
    IF person \in DOMAIN e.customAmounts THEN e.customAmounts[person] ELSE 0

RECURSIVE MutAddOwesStops(_, _, _, _)
\* mutant: the loop over the sharers ends at the first unknown sharer
MutAddOwesStops(val, e, perPerson, n) ==
    IF n > Len(e.splitBetween) THEN val
    ELSE LET person == e.splitBetween[n]
             share == IF e.splitType = "equal" THEN perPerson ELSE CustomShare(e, person)
         IN IF HasEntry(val, person)
            THEN MutAddOwesStops([val EXCEPT ![person].owes = Add(@, share)],
                                 e, perPerson, n + 1)
            ELSE val

RECURSIVE MutAddOwesByCustomKeys(_, _, _, _)
\* mutant: a custom split runs over the keys of customAmounts, not over splitBetween
MutAddOwesByCustomKeys(val, e, perPerson, n) ==
    IF e.splitType = "custom"
    THEN [p \in DOMAIN val |->
            IF p \in DOMAIN e.customAmounts
            THEN [val[p] EXCEPT !.owes = Add(@, e.customAmounts[p])]
            ELSE val[p]]
    ELSE IF n > Len(e.splitBetween) THEN val
    ELSE LET person == e.splitBetween[n]
             next == IF HasEntry(val, person)
                     THEN [val EXCEPT ![person].owes = Add(@, perPerson)]
                     ELSE val
         IN MutAddOwesByCustomKeys(next, e, perPerson, n + 1)

RECURSIVE AddOwes(_, _, _, _)
\* split.forEach(person => { if (balances[person]) balances[person].owes += share })
\* for the sharers split[n..]; share is PerPerson for equal, CustomShare for custom
AddOwes(val, e, perPerson, n) ==
    IF n > Len(e.splitBetween) THEN val
    ELSE LET person == e.splitBetween[n]
             share == IF e.splitType = "equal" THEN perPerson ELSE CustomShare(e, person)
             next == IF HasEntry(val, person)
                     THEN [val EXCEPT ![person].owes = Add(@, share)]
                     ELSE val
         IN AddOwes(next, e, perPerson, n + 1)

\* mutant: an unknown payer gets an entry of their own
MutCreditPayerCreates(val, e) ==
    IF HasEntry(val, e.paidBy)
    THEN [val EXCEPT ![e.paidBy].paid = Add(@, e.amount)]
    ELSE val @@ (e.paidBy :> [paid |-> e.amount, owes |-> 0, balance |-> 0])

CreditPayer(val, e) ==
    IF HasEntry(val, e.paidBy)
    THEN [val EXCEPT ![e.paidBy].paid = Add(@, e.amount)]
    ELSE val

\* mutant: an equal split is charged to every roster member
MutApplyExpenseAllPeople(val, e, g) ==
    LET paid == CreditPayer(val, e)
    IN IF e.splitType = "equal"
       THEN IF g /\ Len(e.splitBetween) = 0
            THEN paid
            ELSE [p \in DOMAIN paid |->
                    [paid[p] EXCEPT !.owes =
                        Add(@, PerPerson(e.amount, Len(e.splitBetween)))]]
       ELSE IF e.splitType = "custom" /\ e.hasCustom
            THEN AddOwes(paid, e, 0, 1)
            ELSE paid

\* the body of expenses.forEach for one expense; g: the length === 0 guard is there
ApplyExpense(val, e, g) ==
    LET paid == CreditPayer(val, e)
    IN IF e.splitType = "equal"
       THEN IF g /\ Len(e.splitBetween) = 0
            THEN paid
            ELSE AddOwes(paid, e, PerPerson(e.amount, Len(e.splitBetween)), 1)
       ELSE IF e.splitType = "custom" /\ e.hasCustom
            THEN AddOwes(paid, e, 0, 1)
            ELSE paid

\* mutant: the subtraction is the wrong way round
MutNetOfFlipped(entry) == [entry EXCEPT !.balance = entry.owes - entry.paid]

NetOf(entry) == [entry EXCEPT !.balance = entry.paid - entry.owes]

(***************************************************************************)
(* simplifyDebts                                                           *)
(***************************************************************************)
IsCreditor(data) == data.balance > Tol

IsDebtor(data) == ~IsCreditor(data) /\ data.balance < -Tol

RECURSIVE CreditorsOf(_, _)
CreditorsOf(keys, val) ==
    IF keys = <<>> THEN <<>>
    ELSE LET person == Head(keys)
         IN (IF IsCreditor(val[person])
             THEN <<[person |-> person, amount |-> val[person].balance]>>
             ELSE <<>>) \o CreditorsOf(Tail(keys), val)

RECURSIVE DebtorsOf(_, _)
DebtorsOf(keys, val) ==
    IF keys = <<>> THEN <<>>
    ELSE LET person == Head(keys)
         IN (IF IsDebtor(val[person])
             THEN <<[person |-> person, amount |-> -val[person].balance]>>
             ELSE <<>>) \o DebtorsOf(Tail(keys), val)

RECURSIVE MutGrossList(_, _, _)
MutGrossList(keys, val, field) ==
    IF keys = <<>> THEN <<>>
    ELSE LET person == Head(keys)
             amount == IF field = "paid" THEN val[person].paid ELSE val[person].owes
         IN (IF amount > Tol
             THEN <<[person |-> person, amount |-> amount]>>
             ELSE <<>>) \o MutGrossList(Tail(keys), val, field)

\* mutant: classifies on what was paid and what is owed, not on the net balance
MutPartitionGross(keys, val) ==
    [creditors |-> MutGrossList(keys, val, "paid"), debtors |-> MutGrossList(keys, val, "owes")]

\* Object.entries(balances).forEach: the creditors and debtors arrays
Partition(keys, val) ==
    [creditors |-> CreditorsOf(keys, val), debtors |-> DebtorsOf(keys, val)]

RECURSIVE InsertDesc(_, _)
\* s is sorted descending; x goes after every element that is not smaller
InsertDesc(s, x) ==
    IF s = <<>> THEN <<x>>
    ELSE IF Head(s).amount >= x.amount THEN <<Head(s)>> \o InsertDesc(Tail(s), x)
    ELSE <<x>> \o s

\* mutant: the sort is left out
MutSortDescOmitted(s) == s

RECURSIVE SortDesc(_)
\* list.sort((a, b) => b.amount - a.amount): stable, largest amount first
SortDesc(s) ==
    IF s = <<>> THEN <<>>
    ELSE InsertDesc(SortDesc(SubSeq(s, 1, Len(s) - 1)), s[Len(s)])

\* mutant: every positive amount is emitted
MutEmitsTransferPositive(amount) == amount > 0

\* if (amount > 0.01) settlements.push(...)
EmitsTransfer(amount) == amount > Tol

\* mutant: the creditor is written into both ends of the transfer
MutTransferSamePerson(creditor, debtor, amount) ==
    [from |-> creditor.person, to |-> creditor.person, amount |-> amount]

\* mutant: from and to are swapped
MutTransferReversed(creditor, debtor, amount) ==
    [from |-> creditor.person, to |-> debtor.person, amount |-> amount]

\* the status line of a person's card in the Individual Balances section
StatusText(person) ==
    LET bal == IF HasEntry(balances.val, person)
               THEN balances.val[person].balance ELSE 0
    IN IF bal > Tol THEN "is owed overall"
       ELSE IF bal < -Tol THEN "owes overall"
       ELSE "settled up"

\* settlements.length === 0: the view shows 'All balances are settled'
ShowsAllSettled == Len(settlements) = 0

\* {from: debtor.person, to: creditor.person, amount: amount}
Transfer(creditor, debtor, amount) ==
    [from |-> debtor.person, to |-> creditor.person, amount |-> amount]

\* mutant: the cursor moves on only below zero
MutExhaustedBelowZero(amount) == amount < 0

\* mutant: the comparison is made against -0.01
MutExhaustedBelowMinusTol(amount) == amount < -Tol

\* if (x.amount < 0.01) cursor++
Exhausted(amount) == amount < Tol

(***************************************************************************)
(* The state machine                                                       *)
(***************************************************************************)
\* the useState initial values of the expense form
InitialForm ==
    [description |-> <<>>, amount |-> <<>>, paidBy |-> <<>>, splitType |-> "equal",
     splitBetween |-> <<>>, customAmounts |-> NoCustom, message |-> "none"]

\* the first render of the App: empty roster and expense list, nothing added
FirstRender == [people |-> <<>>, expenses |-> <<>>, added |-> <<>>]

NoBalances == [keys |-> <<>>, val |-> [p \in {} |-> ZeroEntry]]

Init ==
    /\ people \in RosterInputs
    /\ expenses \in ExpenseLists
    /\ guarded \in BOOLEAN
    /\ balances = NoBalances
    /\ k = 0
    /\ creditors = <<>>
    /\ debtors = <<>>
    /\ i = 0
    /\ j = 0
    /\ settlements = <<>>
    /\ iters = 0
    /\ pc = "start"
    /\ returned = <<>>
    /\ result = FALSE
    /\ now = 0
    /\ form = InitialForm
    /\ legacyForm = FALSE
    /\ render = FirstRender

InitBalances ==
    /\ pc = "start"
    /\ balances' = NewBalances(people)
    /\ pc' = "expenses"
    /\ UNCHANGED <<people, expenses, guarded, k, creditors, debtors, i, j,
                   settlements, iters>>
    /\ UNCHANGED <<returned, result, now, form, legacyForm, render>>

ProcessExpense ==
    /\ pc = "expenses"
    /\ k < Len(expenses)
    /\ balances' = [balances EXCEPT !.val = ApplyExpense(@, expenses[k + 1], guarded)]
    /\ k' = k + 1
    /\ UNCHANGED <<people, expenses, guarded, creditors, debtors, i, j,
                   settlements, iters, pc>>
    /\ UNCHANGED <<returned, result, now, form, legacyForm, render>>

ComputeNet ==
    /\ pc = "expenses"
    /\ k = Len(expenses)
    /\ balances' = [balances EXCEPT !.val = [p \in DOMAIN @ |-> NetOf(@[p])]]
    /\ pc' = "classify"
    /\ UNCHANGED <<people, expenses, guarded, k, creditors, debtors, i, j,
                   settlements, iters>>
    /\ UNCHANGED <<returned, result, now, form, legacyForm, render>>

Classify ==
    /\ pc = "classify"
    /\ creditors' = Partition(balances.keys, balances.val).creditors
    /\ debtors' = Partition(balances.keys, balances.val).debtors
    /\ pc' = "sort"
    /\ UNCHANGED <<people, expenses, guarded, balances, k, i, j, settlements, iters>>
    /\ UNCHANGED <<returned, result, now, form, legacyForm, render>>

Sort ==
    /\ pc = "sort"
    /\ creditors' = SortDesc(creditors)
    /\ debtors' = SortDesc(debtors)
    /\ i' = 0
    /\ j' = 0
    /\ pc' = "loop"
    /\ UNCHANGED <<people, expenses, guarded, balances, k, settlements, iters>>
    /\ UNCHANGED <<returned, result, now, form, legacyForm, render>>

LoopStep ==
    /\ pc = "loop"
    /\ i < Len(creditors)
    /\ j < Len(debtors)
    /\ LET creditor == creditors[i + 1]
           debtor == debtors[j + 1]
           amount == Min(creditor.amount, debtor.amount)
       IN /\ settlements' =
                IF EmitsTransfer(amount)
                THEN Append(settlements, Transfer(creditor, debtor, amount))
                ELSE settlements
          /\ creditors' = [creditors EXCEPT ![i + 1].amount = @ - amount]
          /\ debtors' = [debtors EXCEPT ![j + 1].amount = @ - amount]
          /\ i' = IF Exhausted(creditor.amount - amount) THEN i + 1 ELSE i
          /\ j' = IF Exhausted(debtor.amount - amount) THEN j + 1 ELSE j
    /\ iters' = iters + 1
    /\ UNCHANGED <<people, expenses, guarded, balances, k, pc>>
    /\ UNCHANGED <<returned, result, now, form, legacyForm, render>>

Return ==
    /\ pc = "loop"
    /\ ~(i < Len(creditors) /\ j < Len(debtors))
    /\ pc' = "done"
    /\ returned' = Append(returned, [balances |-> balances, settlements |-> settlements])
    /\ UNCHANGED <<people, expenses, guarded, balances, k, creditors, debtors,
                   i, j, settlements, iters>>
    /\ UNCHANGED <<result, now, form, legacyForm, render>>

\* the component renders again with the same props: both functions are
\* called again and start from fresh locals
Render ==
    /\ pc = "done"
    /\ Len(returned) < MaxCalls
    /\ balances' = NoBalances
    /\ k' = 0
    /\ creditors' = <<>>
    /\ debtors' = <<>>
    /\ i' = 0
    /\ j' = 0
    /\ settlements' = <<>>
    /\ iters' = 0
    /\ pc' = "start"
    /\ UNCHANGED <<people, expenses, guarded, returned, result, now, form, legacyForm, render>>

Next ==
    \/ InitBalances
    \/ ProcessExpense
    \/ ComputeNet
    \/ Classify
    \/ Sort
    \/ LoopStep
    \/ Return
    \/ Render

Spec == Init /\ [][Next]_vars

(***************************************************************************)
(* App: the roster and the stored expense list.  A name typed by the user  *)
(* is a sequence of characters; an event handler runs to completion and    *)
(* the App renders again before the next event is handled.                 *)
(***************************************************************************)
NameInputs ==
    { <<>>, <<" ">>, <<" ", " ">>, <<"a">>, <<" ", "a">>, <<"a", " ">>,
      <<" ", "b", " ">>, <<"a", " ", "b">> }

Dinner == Equal(Cents(6000), "Alice", <<"Alice", "Bob", "Charlie">>)

Groceries ==
    Custom(Cents(10000), "Bob", <<"Alice", "Bob", "Charlie">>,
           ("Alice" :> Cents(4000)) @@ ("Bob" :> Cents(3500)) @@ ("Charlie" :> Cents(2500)))

\* what the expense form hands to addExpense: an expense without id
ExpenseDrafts == {Dinner, Groceries}

RECURSIVE TrimStart(_)
TrimStart(s) == IF s # <<>> /\ Head(s) = " " THEN TrimStart(Tail(s)) ELSE s

RECURSIVE TrimEnd(_)
TrimEnd(s) ==
    IF s # <<>> /\ s[Len(s)] = " " THEN TrimEnd(SubSeq(s, 1, Len(s) - 1)) ELSE s

\* name.trim()
Trim(s) == TrimEnd(TrimStart(s))

\* people.includes(x)
Includes(arr, x) == \E n \in DOMAIN arr : arr[n] = x

\* mutant: the duplicate check looks for the name as typed
MutAddPersonUntrimmedCheck(roster, name) ==
    IF Trim(name) = <<>> THEN [people |-> roster, result |-> FALSE]
    ELSE IF Includes(roster, name) THEN [people |-> roster, result |-> FALSE]
    ELSE [people |-> Append(roster, Trim(name)), result |-> TRUE]

\* addPerson: the roster it sets and the value it returns
addPerson(roster, name) ==
    IF Trim(name) = <<>> THEN [people |-> roster, result |-> FALSE]
    ELSE IF Includes(roster, Trim(name)) THEN [people |-> roster, result |-> FALSE]
    ELSE [people |-> Append(roster, Trim(name)), result |-> TRUE]

\* people.filter(person => person !== name)
removePerson(roster, name) == SelectSeq(roster, LAMBDA person : person # name)

\* [...expenses, {...expense, id: Date.now()}]
addExpense(list, expense, clock) == Append(list, [id |-> clock] @@ expense)

\* expenses.filter(expense => expense.id !== id)
deleteExpense(list, id) == SelectSeq(list, LAMBDA expense : expense.id # id)

\* expenses.map(expense => ...): the cards of the Expense History, top first
DisplayedExpenses(list) == list

engineVars == <<guarded, balances, k, creditors, debtors, i, j, settlements,
                iters, pc, returned>>

InitApp ==
    /\ people = <<>>
    /\ expenses = <<>>
    /\ guarded = TRUE
    /\ balances = NoBalances
    /\ k = 0
    /\ creditors = <<>>
    /\ debtors = <<>>
    /\ i = 0
    /\ j = 0
    /\ settlements = <<>>
    /\ iters = 0
    /\ pc = "app"
    /\ returned = <<>>
    /\ result = FALSE
    /\ now = 0
    /\ form = InitialForm
    /\ legacyForm = FALSE
    /\ render = FirstRender

AddPerson(name) ==
    /\ pc = "app"
    /\ people' = addPerson(people, name).people
    /\ result' = addPerson(people, name).result
    /\ UNCHANGED <<expenses, now, engineVars, form, legacyForm, render>>

RemovePerson(name) ==
    /\ pc = "app"
    /\ people' = removePerson(people, name)
    /\ UNCHANGED <<expenses, result, now, engineVars, form, legacyForm, render>>

AddExpense(expense) ==
    /\ pc = "app"
    /\ Len(expenses) < MaxStored
    /\ expenses' = addExpense(expenses, expense, now)
    /\ UNCHANGED <<people, result, now, engineVars, form, legacyForm, render>>

DeleteExpense(id) ==
    /\ pc = "app"
    /\ expenses' = deleteExpense(expenses, id)
    /\ UNCHANGED <<people, result, now, engineVars, form, legacyForm, render>>

\* a millisecond passes
Tick ==
    /\ pc = "app"
    /\ now < MaxClock
    /\ now' = now + 1
    /\ UNCHANGED <<people, expenses, result, engineVars, form, legacyForm, render>>

NextApp ==
    \/ \E name \in NameInputs : AddPerson(name)
    \/ \E name \in NameInputs \cup Range(people) : RemovePerson(name)
    \/ \E expense \in ExpenseDrafts : AddExpense(expense)
    \/ \E id \in 0..MaxClock : DeleteExpense(id)
    \/ Tick

SpecApp == InitApp /\ [][NextApp]_vars

(***************************************************************************)
(* App, with renders apart from handlers: a handler works on the people    *)
(* and expenses of the render that created it, and several handlers may    *)
(* run before the App renders again.                                       *)
(***************************************************************************)
BatchOpen == pc = "app" /\ Len(render.added) < MaxBatch

\* addPerson of the current render; setPeople is called on success only
AddPersonInRender(name) ==
    /\ BatchOpen
    /\ result' = addPerson(render.people, name).result
    /\ IF addPerson(render.people, name).result
       THEN /\ people' = addPerson(render.people, name).people
            /\ render' = [render EXCEPT
                           !.added = Append(@, [kind |-> "person", value |-> Trim(name)])]
       ELSE UNCHANGED <<people, render>>
    /\ UNCHANGED <<expenses, now, form, legacyForm, engineVars>>

\* addExpense of the current render
AddExpenseInRender(expense) ==
    /\ BatchOpen
    /\ Len(render.expenses) < MaxStored
    /\ expenses' = addExpense(render.expenses, expense, now)
    /\ render' = [render EXCEPT
                   !.added = Append(@, [kind |-> "expense",
                                        value |-> [id |-> now] @@ expense])]
    /\ UNCHANGED <<people, result, now, form, legacyForm, engineVars>>

\* the App renders again: new handlers close over the stored state
RenderApp ==
    /\ pc = "app"
    /\ render' = [people |-> people, expenses |-> expenses, added |-> <<>>]
    /\ UNCHANGED <<people, expenses, result, now, form, legacyForm, engineVars>>

NextRender ==
    \/ \E name \in NameInputs : AddPersonInRender(name)
    \/ \E expense \in ExpenseDrafts : AddExpenseInRender(expense)
    \/ RenderApp

SpecRender == InitApp /\ [][NextRender]_vars

(***************************************************************************)
(* ExpenseForm.  Text typed into a field is a sequence of characters; the  *)
(* empty string is the empty sequence.                                     *)
(***************************************************************************)
DescriptionInputs == { <<" ">>, <<" ", "x", " ", " ", "y", " ">> }

AmountInputs == { <<"0">>, <<"6", "0">> }

CustomAmountInputs == { <<>>, <<"6", "0">> }

\* the rosters the form is opened with
FormRosters == { <<<<"a">>, <<"c">>>>, <<<<"a">>, <<"b">>, <<"c">>>> }

\* the person whose remove button is clicked while the form is in use
RemovedInputs == { <<"c">> }

RECURSIVE CollapseSpaces(_)
\* replace(/\s+/g, ' ')
CollapseSpaces(s) ==
    IF Len(s) < 2 THEN s
    ELSE IF s[1] = " " /\ s[2] = " " THEN CollapseSpaces(Tail(s))
    ELSE <<s[1]>> \o CollapseSpaces(Tail(s))

\* s.trim().replace(/\s+/g, ' ')
Normalize(s) == CollapseSpaces(Trim(s))

Digits ==
    ("0" :> 0) @@ ("1" :> 1) @@ ("2" :> 2) @@ ("3" :> 3) @@ ("4" :> 4) @@
    ("5" :> 5) @@ ("6" :> 6) @@ ("7" :> 7) @@ ("8" :> 8) @@ ("9" :> 9)

\* the number that is not a number
NaN == -(Infinity + 1)

RECURSIVE ParseDigits(_, _, _)
\* the value of the digits of s from position n up to the first other character
ParseDigits(s, n, acc) ==
    IF n > Len(s) \/ s[n] \notin DOMAIN Digits THEN acc
    ELSE ParseDigits(s, n + 1, 10 * acc + Digits[s[n]])

\* parseFloat on text without a decimal point, in model units
ParseFloat(raw) ==
    LET s == TrimStart(raw)
    IN IF s = <<>> THEN NaN
       ELSE IF s[1] = "-"
            THEN IF Len(s) < 2 \/ s[2] \notin DOMAIN Digits THEN NaN
                 ELSE -Cents(100 * ParseDigits(s, 2, 0))
       ELSE IF s[1] \notin DOMAIN Digits THEN NaN
       ELSE Cents(100 * ParseDigits(s, 1, 0))

\* {...p, [person]: value}
With(p, person, value) ==
    [q \in DOMAIN p \cup {person} |-> IF q = person THEN value ELSE p[q]]

\* delete next[person]
Without(p, person) == [q \in DOMAIN p \ {person} |-> p[q]]

handleCheckboxChange(f, person, checked, legacy) ==
    IF checked
    THEN IF legacy
         THEN [f EXCEPT !.splitBetween = Append(@, person),
                        !.customAmounts =
                            IF f.splitType = "custom" THEN With(@, person, 0) ELSE @]
         ELSE IF ~Includes(f.splitBetween, person)
              THEN [f EXCEPT !.splitBetween = Append(@, person),
                             !.customAmounts =
                                 IF f.splitType = "custom"
                                 THEN With(@, person,
                                           IF person \in DOMAIN @ THEN @[person] ELSE 0)
                                 ELSE @]
              ELSE f
    ELSE [f EXCEPT !.splitBetween = SelectSeq(@, LAMBDA x : x # person),
                   !.customAmounts =
                       IF f.splitType = "custom" THEN Without(@, person) ELSE @]

handleCustomAmountChange(f, person, raw) ==
    LET parsed == ParseFloat(raw)
    IN [f EXCEPT !.customAmounts = With(@, person, IF parsed = NaN THEN 0 ELSE parsed)]

\* the total the custom amounts are checked against the amount with
TotalCustom(f, legacy) ==
    IF legacy THEN SumFun(f.customAmounts)
    ELSE SumFun([n \in DOMAIN f.splitBetween |->
                   IF f.splitBetween[n] \in DOMAIN f.customAmounts
                   THEN f.customAmounts[f.splitBetween[n]] ELSE 0])

\* the check of validateAndBuild that fails first, "none" when all pass
FailedCheck(f, legacy) ==
    LET amt == ParseFloat(f.amount)
    IN IF (IF legacy THEN Trim(f.description) ELSE Normalize(f.description)) = <<>>
       THEN "description"
       ELSE IF amt = NaN \/ ~(amt > 0) THEN "amount"
       ELSE IF f.paidBy = <<>> THEN "paidBy"
       ELSE IF Len(f.splitBetween) = 0 THEN "splitBetween"
       ELSE IF f.splitType = "custom" /\ Abs(TotalCustom(f, legacy) - amt) > Tol
            THEN "customAmounts"
       ELSE "none"

\* the payload handed to onAddExpense (its date is left out)
Payload(f, legacy) ==
    [description |-> IF legacy THEN Trim(f.description) ELSE Normalize(f.description)]
      @@ (IF f.splitType = "custom"
          THEN Custom(ParseFloat(f.amount), f.paidBy, f.splitBetween, f.customAmounts)
          ELSE Equal(ParseFloat(f.amount), f.paidBy, f.splitBetween))

\* mutant: the submit button is never disabled
MutSubmitNeverDisabled(roster) == FALSE

\* <button type="submit" disabled={people.length < 2}>
SubmitDisabled(roster) == Len(roster) < 2

InitForm ==
    /\ people \in FormRosters
    /\ expenses = <<>>
    /\ guarded = TRUE
    /\ balances = NoBalances
    /\ k = 0
    /\ creditors = <<>>
    /\ debtors = <<>>
    /\ i = 0
    /\ j = 0
    /\ settlements = <<>>
    /\ iters = 0
    /\ pc = "app"
    /\ returned = <<>>
    /\ result = FALSE
    /\ now = 0
    /\ form = InitialForm
    /\ legacyForm \in BOOLEAN
    /\ render = FirstRender

appVars == <<people, expenses, result, now, legacyForm, render>>

\* the form is used until MaxSubmits expenses are submitted
FormInUse == pc = "app" /\ Len(expenses) < MaxSubmits

SetDescription(text) ==
    /\ FormInUse
    /\ form' = [form EXCEPT !.description = text]
    /\ UNCHANGED <<appVars, engineVars>>

SetAmount(text) ==
    /\ FormInUse
    /\ form' = [form EXCEPT !.amount = text]
    /\ UNCHANGED <<appVars, engineVars>>

\* the select offers the empty option and the people of the roster
SetPaidBy(person) ==
    /\ FormInUse
    /\ person \in {<<>>} \cup Range(people)
    /\ form' = [form EXCEPT !.paidBy = person]
    /\ UNCHANGED <<appVars, engineVars>>

SetSplitType(type) ==
    /\ FormInUse
    /\ form' = [form EXCEPT !.splitType = type]
    /\ UNCHANGED <<appVars, engineVars>>

\* a click on the checkbox of a person of the roster
ToggleSharer(person) ==
    /\ FormInUse
    /\ person \in Range(people)
    /\ form' = handleCheckboxChange(form, person, ~Includes(form.splitBetween, person),
                                    legacyForm)
    /\ UNCHANGED <<appVars, engineVars>>

\* the amount field of a checked person, shown in custom mode
EditCustomAmount(person, raw) ==
    /\ FormInUse
    /\ person \in Range(people)
    /\ form.splitType = "custom"
    /\ Includes(form.splitBetween, person)
    /\ form' = handleCustomAmountChange(form, person, raw)
    /\ UNCHANGED <<appVars, engineVars>>

\* the dismiss button and the timeout of flash
ClearMessage ==
    /\ FormInUse
    /\ form.message # "none"
    /\ form' = [form EXCEPT !.message = "none"]
    /\ UNCHANGED <<appVars, engineVars>>

\* handleSubmit, with addExpense of the App as onAddExpense
Submit ==
    /\ FormInUse
    /\ ~SubmitDisabled(people)
    /\ IF FailedCheck(form, legacyForm) = "none"
       THEN /\ expenses' = addExpense(expenses, Payload(form, legacyForm), now)
            /\ form' = [InitialForm EXCEPT !.message = "success"]
       ELSE /\ form' = [form EXCEPT !.message = "error"]
            /\ UNCHANGED expenses
    /\ UNCHANGED <<people, result, now, legacyForm, render, engineVars>>

NextForm ==
    \/ \E name \in RemovedInputs : RemovePerson(name)
    \/ \E text \in DescriptionInputs : SetDescription(text)
    \/ \E text \in AmountInputs : SetAmount(text)
    \/ \E person \in {<<>>} \cup Range(people) : SetPaidBy(person)
    \/ \E type \in {"equal", "custom"} : SetSplitType(type)
    \/ \E person \in Range(people) : ToggleSharer(person)
    \/ \E person \in Range(people), raw \in CustomAmountInputs :
          EditCustomAmount(person, raw)
    \/ ClearMessage
    \/ Submit

SpecForm == InitForm /\ [][NextForm]_vars

(***************************************************************************)
(* Vocabulary of the properties                                            *)
(***************************************************************************)
Roster == Range(people)

Entries == DOMAIN balances.val

Computed == pc \notin {"start", "expenses"}

InRoster(e) == e.paidBy \in Roster /\ Range(e.splitBetween) \subseteq Roster

AllRefsInRoster == \A n \in DOMAIN expenses : InRoster(expenses[n])

TotalPaid == SumFun([p \in Entries |-> balances.val[p].paid])

TotalOwes == SumFun([p \in Entries |-> balances.val[p].owes])

Net(p) == balances.val[p].paid - balances.val[p].owes

NetsSumToZero == SumFun([p \in Entries |-> Net(p)]) = 0

WithinTol(x) == Abs(x) <= Tol

PaidOut(p) ==
    SumFun([n \in DOMAIN settlements |->
              IF settlements[n].from = p THEN settlements[n].amount ELSE 0])

Received(p) ==
    SumFun([n \in DOMAIN settlements |->
              IF settlements[n].to = p THEN settlements[n].amount ELSE 0])

\* the net of p once every transfer is paid: the payer's net rises
NetAfterPaying(p) == Net(p) + PaidOut(p) - Received(p)

\* the net of p with amount subtracted from from.net and added to to.net
NetAfterSubtracting(p) == Net(p) - PaidOut(p) + Received(p)

\* the number of times person occurs in the sharer list of e
Occurrences(e, person) ==
    Cardinality({n \in DOMAIN e.splitBetween : e.splitBetween[n] = person})

\* what e adds to the paid and to the owes of a roster member
PaidShare(e, person) == IF e.paidBy = person THEN e.amount ELSE 0

OwedShare(e, person) ==
    IF e.splitType = "equal"
    THEN IF Len(e.splitBetween) = 0 THEN 0
         ELSE Occurrences(e, person) * (e.amount \div Len(e.splitBetween))
    ELSE IF e.hasCustom /\ person \in DOMAIN e.customAmounts
         THEN Occurrences(e, person) * e.customAmounts[person]
         ELSE 0

\* e is shared out in full: its sharers' shares add up to its amount
FullyShared(e) ==
    IF e.splitType = "equal" THEN Len(e.splitBetween) > 0
    ELSE /\ e.hasCustom
         /\ SumFun([n \in DOMAIN e.splitBetween |-> CustomShare(e, e.splitBetween[n])])
              = e.amount

AllFullyShared == \A n \in DOMAIN expenses : FullyShared(expenses[n])

(***************************************************************************)
(* C1..C5                                                                  *)
(***************************************************************************)
\* C1: with every payer and sharer in the roster and paid and owed totals
\* equal, applying the returned transfers leaves every net within 0.01 of
\* zero (in either direction of applying a transfer to the two nets).
C1_SettlementComplete ==
    (pc = "done" /\ AllRefsInRoster /\ TotalPaid = TotalOwes)
        => \/ \A p \in Entries : WithinTol(NetAfterPaying(p))
           \/ \A p \in Entries : WithinTol(NetAfterSubtracting(p))

\* C2 as claimed: with every payer and sharer in the roster, the paid total
\* equals the owes total within the tolerance.
C2_Conservation ==
    (Computed /\ AllRefsInRoster) => WithinTol(TotalPaid - TotalOwes)

\* C2 as amended: with every payer and sharer in the roster, every equal
\* split having at least one sharer and every custom split having custom
\* amounts that add up to the amount, the paid total equals the owes total.
C2_ConservationFullyShared ==
    (Computed /\ AllRefsInRoster /\ AllFullyShared) => TotalPaid = TotalOwes

C2_Witness ==
    /\ pc = "done"
    /\ AllRefsInRoster
    /\ AllFullyShared
    /\ \E n \in DOMAIN expenses : expenses[n].splitType = "equal"
    /\ \E n \in DOMAIN expenses : expenses[n].splitType = "custom"
    /\ TotalPaid > 0

NonZero == {p \in Entries : Net(p) # 0}

\* the roster split into groups whose nets each add up to zero; a group with
\* m non-zero members is settled by m - 1 transfers
ZeroSumGroupings ==
    {g \in [Entries -> 1..Cardinality(Entries)] :
        \A n \in 1..Cardinality(Entries) :
            SumFun([p \in {q \in Entries : g[q] = n} |-> Net(p)]) = 0}

TransfersNeeded(g) == Cardinality(NonZero) - Cardinality({g[p] : p \in NonZero})

FewerTransfersSettle ==
    \E g \in ZeroSumGroupings : TransfersNeeded(g) < Len(settlements)

\* C3: when the nets sum to zero, no list of fewer transfers settles everyone.
C3_MinimumTransfers ==
    (pc = "done" /\ NetsSumToZero) => ~FewerTransfersSettle

DocExample ==
    /\ people = <<"Alice", "Bob", "Charlie">>
    /\ Computed
    /\ balances.val["Alice"].balance = Cents(7000)
    /\ balances.val["Bob"].balance = -Cents(3000)
    /\ balances.val["Charlie"].balance = -Cents(4000)

C5_TransfersAboveTol ==
    \A n \in DOMAIN settlements : settlements[n].amount > Tol

\* a transfer was emitted and an iteration of 0.01 or less was suppressed,
\* on nets that do not sum to zero
C5_Witness ==
    /\ pc = "done"
    /\ Len(settlements) > 0
    /\ iters > Len(settlements)
    /\ ~NetsSumToZero

(***************************************************************************)
(* C6..C10                                                                 *)
(***************************************************************************)
\* C6: no emitted transfer has the same person as from and as to.
C6_NoSelfTransfer ==
    \A n \in DOMAIN settlements : settlements[n].from # settlements[n].to

C6_Witness ==
    /\ pc = "done"
    /\ Len(settlements) >= 2
    /\ \E n \in DOMAIN expenses : ~InRoster(expenses[n])

AllSettled == \A p \in Entries : WithinTol(Net(p))

\* C7: when every net is within 0.01 of zero (the empty roster included),
\* simplifyDebts returns the empty list.
C7_SettledGivesNoTransfers ==
    (pc = "done" /\ AllSettled) => settlements = <<>>

\* everyone is settled although money was paid, with a net exactly on the
\* edge of the band
C7_Witness ==
    /\ pc = "done"
    /\ AllSettled
    /\ \E p \in Entries : Net(p) = Tol
    /\ \E p \in Entries : Net(p) = -Tol
    /\ settlements = <<>>

Active(p) ==
    \E n \in DOMAIN expenses :
        expenses[n].paidBy = p \/ p \in Range(expenses[n].splitBetween)

\* C8: the balances map has exactly one entry per roster participant and no
\* other entry, whatever the expenses reference; a participant who paid
\* nothing and shares nothing has paid 0, owes 0 and balance 0.
C8_OneEntryPerParticipant ==
    pc # "start" =>
        /\ Entries = Roster
        /\ Range(balances.keys) = Roster
        /\ Len(balances.keys) = Cardinality(Roster)
        /\ Computed => \A p \in Roster : ~Active(p) => balances.val[p] = ZeroEntry

C8_Witness ==
    /\ pc = "done"
    /\ \E n \in DOMAIN expenses : expenses[n].paidBy \notin Roster
    /\ \E n \in DOMAIN expenses : ~(Range(expenses[n].splitBetween) \subseteq Roster)
    /\ \E p \in Roster : ~Active(p)
    /\ \E p \in Roster : balances.val[p].balance # 0

\* the expense that expenses.forEach handles next, and the one it handled last
Handling == pc = "expenses" /\ k < Len(expenses)

Handled == pc = "expenses" /\ k > 0

\* the step adds to every entry what e attributes to that roster member
AttributedNormally(e) ==
    /\ k' = k + 1
    /\ pc' = "expenses"
    /\ DOMAIN balances'.val = Entries
    /\ \A p \in Entries :
          /\ IsFinite(balances'.val[p].paid)
          /\ IsFinite(balances'.val[p].owes)
          /\ balances'.val[p].paid = balances.val[p].paid + PaidShare(e, p)
          /\ balances'.val[p].owes = balances.val[p].owes + OwedShare(e, p)

\* C9: an expense with a payer or a sharer outside the roster is handled
\* without error; the outside references add to nobody and the references
\* inside the roster are attributed as usual.
C9_UnknownReferencesDropped ==
    [][(Handling /\ ~InRoster(expenses[k + 1]))
          => AttributedNormally(expenses[k + 1])]_vars

\* an expense with a sharer outside the roster in the middle of its list was
\* handled, and a roster sharer after it was charged
C9_Witness ==
    /\ Handled
    /\ LET e == expenses[k]
       IN \E m, n \in DOMAIN e.splitBetween :
             /\ m < n
             /\ e.splitBetween[m] \notin Roster
             /\ e.splitBetween[n] \in Roster
             /\ balances.val[e.splitBetween[n]].owes > 0

EqualWithoutSharers(e) == e.splitType = "equal" /\ Len(e.splitBetween) = 0

\* C10: an equal split with no sharers credits the payer and leaves every
\* owes as it was, with and without the length guard; every entry stays a
\* finite number.
C10_EmptyEqualSplit ==
    [][(Handling /\ EqualWithoutSharers(expenses[k + 1]))
          => /\ k' = k + 1
             /\ DOMAIN balances'.val = Entries
             /\ \A p \in Entries :
                   /\ IsFinite(balances'.val[p].owes)
                   /\ IsFinite(balances'.val[p].paid)
                   /\ balances'.val[p].owes = balances.val[p].owes
                   /\ balances'.val[p].paid =
                         balances.val[p].paid
                           + (IF p = expenses[k + 1].paidBy
                              THEN expenses[k + 1].amount ELSE 0)]_vars

\* the version without the guard handled such an expense and credited its payer
C10_Witness ==
    /\ Handled
    /\ ~guarded
    /\ EqualWithoutSharers(expenses[k])
    /\ expenses[k].paidBy \in Roster
    /\ k = 1
    /\ balances.val[expenses[k].paidBy].paid = expenses[k].amount
    /\ \A p \in Entries : balances.val[p].owes = 0

(***************************************************************************)
(* C11..C18                                                                *)
(***************************************************************************)
\* C11: the matching loop ends for every balance map, balanced or not:
\* every iteration so far moved the creditor cursor or the debtor cursor
\* forward (iters <= i + j), the cursors stay within the lists, and in the
\* loop either another iteration or the return is possible.
C11_LoopTerminates ==
    /\ iters <= i + j
    /\ i <= Len(creditors)
    /\ j <= Len(debtors)
    /\ pc = "loop" => ENABLED LoopStep \/ ENABLED Return

\* the loop ran three times on nets that do not sum to zero and returned
C11_Witness ==
    /\ pc = "done"
    /\ iters >= 3
    /\ ~NetsSumToZero

LoopEntered == pc \in {"loop", "done"}

\* C12 as claimed: the loop runs at most creditors.length + debtors.length - 1
\* times.
C12_IterationBound ==
    LoopEntered => iters <= Len(creditors) + Len(debtors) - 1

\* C12 as amended: the bound holds whenever one of the two lists is not
\* empty; with both lists empty the loop does not run at all.
C12_IterationBoundNonEmpty ==
    LoopEntered =>
        IF Len(creditors) + Len(debtors) > 0
        THEN iters <= Len(creditors) + Len(debtors) - 1
        ELSE iters = 0

\* the bound is met: two creditors, three debtors, four iterations
C12_Witness ==
    /\ pc = "done"
    /\ Len(creditors) = 2
    /\ Len(debtors) = 3
    /\ iters = 4

DinnerScenario ==
    /\ people = <<"Alice", "Bob", "Charlie">>
    /\ expenses = <<Dinner>>

\* C13: 60 paid by Alice and split equally among Alice, Bob and Charlie gives
\* Alice 60 / 20 / +40, Bob and Charlie 0 / 20 / -20, and exactly the two
\* transfers Bob pays Alice 20 and Charlie pays Alice 20.
C13_EqualSplitExample ==
    (pc = "done" /\ DinnerScenario)
        => /\ balances.val["Alice"] =
                [paid |-> Cents(6000), owes |-> Cents(2000), balance |-> Cents(4000)]
           /\ balances.val["Bob"] =
                [paid |-> 0, owes |-> Cents(2000), balance |-> -Cents(2000)]
           /\ balances.val["Charlie"] =
                [paid |-> 0, owes |-> Cents(2000), balance |-> -Cents(2000)]
           /\ Len(settlements) = 2
           /\ Range(settlements) =
                { [from |-> "Bob", to |-> "Alice", amount |-> Cents(2000)],
                  [from |-> "Charlie", to |-> "Alice", amount |-> Cents(2000)] }

C13_Witness == pc = "done" /\ DinnerScenario /\ iters = 2

GroceriesScenario ==
    /\ people = <<"Alice", "Bob", "Charlie">>
    /\ expenses = <<Groceries>>

\* C14: 100 paid by Bob with custom amounts Alice 40, Bob 35, Charlie 25 gives
\* nets Alice -40, Bob +65, Charlie -25 and the transfers Alice pays Bob 40,
\* then Charlie pays Bob 25.
C14_CustomSplitExample ==
    (pc = "done" /\ GroceriesScenario)
        => /\ balances.val["Alice"].balance = -Cents(4000)
           /\ balances.val["Bob"].balance = Cents(6500)
           /\ balances.val["Charlie"].balance = -Cents(2500)
           /\ settlements =
                << [from |-> "Alice", to |-> "Bob", amount |-> Cents(4000)],
                   [from |-> "Charlie", to |-> "Bob", amount |-> Cents(2500)] >>

C14_Witness == pc = "done" /\ GroceriesScenario /\ iters = 2

\* C15: every from is a participant with net below -0.01 and every to one
\* with net above +0.01; a participant within the band is in no transfer.
C15_OnlyDebtorsPayCreditors ==
    \A n \in DOMAIN settlements :
        /\ settlements[n].from \in Entries
        /\ settlements[n].to \in Entries
        /\ Net(settlements[n].from) < -Tol
        /\ Net(settlements[n].to) > Tol

\* transfers were returned while one participant has no activity and
\* another has a non-zero net within the band
C15_Witness ==
    /\ pc = "done"
    /\ settlements # <<>>
    /\ \E p \in Entries : ~Active(p) /\ balances.val[p] = ZeroEntry
    /\ \E p \in Entries : Net(p) # 0 /\ WithinTol(Net(p))

RosterIndex(person) == CHOOSE n \in DOMAIN people : people[n] = person

\* list is in descending order of amount, equal amounts in roster order
DescendingRosterTies(list) ==
    \A m, n \in DOMAIN list :
        m < n => \/ list[m].amount > list[n].amount
                 \/ /\ list[m].amount = list[n].amount
                    /\ RosterIndex(list[m].person) < RosterIndex(list[n].person)

\* C16: after the sort, creditors and debtors are each in descending order
\* of amount with equal amounts in roster order.
C16_TiesInRosterOrder ==
    (pc = "loop" /\ iters = 0)
        => DescendingRosterTies(creditors) /\ DescendingRosterTies(debtors)

C18_CustomSplitOwes ==
    [][(Handling /\ expenses[k + 1].splitType = "custom")
          => \A p \in Entries :
                balances'.val[p].owes =
                    balances.val[p].owes
                      + (IF p \in Range(expenses[k + 1].splitBetween)
                            /\ p \in DOMAIN expenses[k + 1].customAmounts
                         THEN Occurrences(expenses[k + 1], p)
                                * expenses[k + 1].customAmounts[p]
                         ELSE 0)]_vars

\* the first expense was a custom split with a charged sharer, a roster
\* sharer without a custom amount and a custom amount for a roster member
\* who is no sharer
C18_Witness ==
    /\ Handled
    /\ k = 1
    /\ expenses[1].splitType = "custom"
    /\ LET e == expenses[1]
       IN /\ \E p \in Entries : /\ p \in Range(e.splitBetween)
                                /\ p \in DOMAIN e.customAmounts
                                /\ balances.val[p].owes = e.customAmounts[p]
                                /\ e.customAmounts[p] > 0
          /\ \E p \in Entries : /\ p \in Range(e.splitBetween)
                                /\ p \notin DOMAIN e.customAmounts
                                /\ balances.val[p].owes = 0
          /\ \E p \in Entries : /\ p \notin Range(e.splitBetween)
                                /\ p \in DOMAIN e.customAmounts
                                /\ balances.val[p].owes = 0

(***************************************************************************)
(* C19, C20: the App's handlers                                            *)
(***************************************************************************)
NoDuplicates(seq) == \A m, n \in DOMAIN seq : m # n => seq[m] # seq[n]

Blank(name) == \A n \in DOMAIN name : name[n] = " "

\* t is name without its leading and trailing spaces
IsTrimOf(t, name) ==
    /\ t # <<>>
    /\ t[1] # " "
    /\ t[Len(t)] # " "
    /\ \E lead \in 0..Len(name) :
          /\ lead + Len(t) <= Len(name)
          /\ SubSeq(name, lead + 1, lead + Len(t)) = t
          /\ \A n \in DOMAIN name :
                (n <= lead \/ n > lead + Len(t)) => name[n] = " "

\* C19: the roster never holds a duplicate or an empty name; addPerson with
\* a blank name or a name already present returns false and leaves the
\* roster unchanged; otherwise it appends the trimmed name and returns true.
C19_AddPersonKeepsRosterValid ==
    /\ [](NoDuplicates(people) /\ \A n \in DOMAIN people : people[n] # <<>>)
    /\ [][\A name \in NameInputs :
            AddPerson(name) =>
                IF Blank(name) \/ \E n \in DOMAIN people : IsTrimOf(people[n], name)
                THEN result' = FALSE /\ people' = people
                ELSE /\ result' = TRUE
                     /\ Len(people') = Len(people) + 1
                     /\ SubSeq(people', 1, Len(people)) = people
                     /\ IsTrimOf(people'[Len(people')], name)]_vars

\* a call was rejected while the roster holds three names, one of them
\* typed with spaces around it
C19_Witness ==
    /\ pc = "app"
    /\ Len(people) = 3
    /\ <<"b">> \in Range(people)
    /\ result = FALSE

\* C20: no two expenses of the stored list have the same id.
C20_UniqueIds ==
    \A m, n \in DOMAIN expenses : m # n => expenses[m].id # expenses[n].id

(***************************************************************************)
(* C25..C29: calculateBalances and simplifyDebts                           *)
(***************************************************************************)
\* C25: an equal split with a non-empty sharer list adds amount divided by
\* the full length of splitBetween to the owes of each sharer that is in the
\* roster; sharers outside the roster count in the divisor and get no entry.
C25_EqualSplitDivisor ==
    [][(Handling /\ expenses[k + 1].splitType = "equal"
                 /\ Len(expenses[k + 1].splitBetween) > 0)
          => /\ DOMAIN balances'.val = Entries
             /\ \A p \in Entries :
                   balances'.val[p].owes =
                       balances.val[p].owes
                         + Occurrences(expenses[k + 1], p)
                             * (expenses[k + 1].amount
                                  \div Len(expenses[k + 1].splitBetween))]_vars

\* the first expense was an equal split with a sharer outside the roster,
\* and a roster sharer was charged the share of the full list
C25_Witness ==
    /\ Handled
    /\ k = 1
    /\ expenses[1].splitType = "equal"
    /\ ~(Range(expenses[1].splitBetween) \subseteq Roster)
    /\ \E p \in Roster :
          /\ p \in Range(expenses[1].splitBetween)
          /\ balances.val[p].owes > 0
          /\ balances.val[p].owes * Len(expenses[1].splitBetween) = expenses[1].amount

InitialCredit(p) == IF IsCreditor(balances.val[p]) THEN balances.val[p].balance ELSE 0

InitialDebt(p) == IF IsDebtor(balances.val[p]) THEN -balances.val[p].balance ELSE 0

\* C26: in the matching loop no creditor's or debtor's remaining amount is
\* negative; no debtor pays more in total than the initial debt and no
\* creditor receives more than the initial credit.
C26_RemainingNonNegative ==
    LoopEntered =>
        /\ \A n \in DOMAIN creditors : creditors[n].amount >= 0
        /\ \A n \in DOMAIN debtors : debtors[n].amount >= 0
        /\ \A p \in Entries :
              /\ PaidOut(p) <= InitialDebt(p)
              /\ Received(p) <= InitialCredit(p)

\* the loop ran to its end on an unbalanced map, leaving one creditor partly
\* paid
C26_Witness ==
    /\ pc = "done"
    /\ ~NetsSumToZero
    /\ Len(settlements) >= 2
    /\ \E p \in Entries : Received(p) > 0 /\ Received(p) < InitialCredit(p)

\* C27: no ordered (from, to) pair occurs twice in the returned list.
C27_PairsOccurOnce ==
    \A m, n \in DOMAIN settlements :
        m # n => <<settlements[m].from, settlements[m].to>>
                    # <<settlements[n].from, settlements[n].to>>

\* the returned list has a creditor in two transfers and a debtor in two
C27_Witness ==
    /\ pc = "done"
    /\ \E m, n \in DOMAIN settlements :
          m # n /\ settlements[m].to = settlements[n].to
    /\ \E m, n \in DOMAIN settlements :
          m # n /\ settlements[m].from = settlements[n].from

\* C29: with nets that sum to zero, the view shows 'All balances are settled'
\* only if every card reads 'settled up'.
C29_SettledMeansAllWithinBand ==
    (pc = "done" /\ NetsSumToZero /\ ShowsAllSettled)
        => \A n \in DOMAIN people : StatusText(people[n]) = "settled up"

(***************************************************************************)
(* C21: the Expense History                                                *)
(***************************************************************************)
\* C21: the expense list is shown most recent first: a card is never above
\* the card of an expense that was added at a later time (the id of an
\* expense is the clock value of its add).
C21_MostRecentFirst ==
    \A m, n \in DOMAIN DisplayedExpenses(expenses) :
        m < n => DisplayedExpenses(expenses)[m].id >= DisplayedExpenses(expenses)[n].id

(***************************************************************************)
(* C22, C23, C24, C28: the expense form                                    *)
(***************************************************************************)
\* the step hands an expense to onAddExpense
Submitted == Submit /\ Len(expenses') = Len(expenses) + 1

SubmittedExpense == expenses'[Len(expenses')]

\* the custom amounts of the selected sharers add up to the amount
SharersCoverAmount(f) ==
    WithinTol(SumFun([n \in DOMAIN f.splitBetween |->
                        IF f.splitBetween[n] \in DOMAIN f.customAmounts
                        THEN f.customAmounts[f.splitBetween[n]] ELSE 0])
                - ParseFloat(f.amount))

\* the conditions under which the form may call onAddExpense
MayAddExpense(f) ==
    /\ ~Blank(f.description)
    /\ ParseFloat(f.amount) # NaN
    /\ ParseFloat(f.amount) > 0
    /\ f.paidBy # <<>>
    /\ f.splitBetween # <<>>
    /\ f.splitType = "custom" => SharersCoverAmount(f)

\* C22: the form calls onAddExpense only with a description that is not
\* blank, an amount that parses to a number above 0, a payer, at least one
\* sharer and, in custom mode, custom amounts of the selected sharers within
\* 0.01 of the amount; a failed check changes no field and shows an error.
C22_SubmitOnlyWhenValid ==
    [][Submit =>
          IF MayAddExpense(form)
          THEN Submitted
          ELSE /\ expenses' = expenses
               /\ form' = [form EXCEPT !.message = "error"]]_vars

\* C23: a custom-split expense that the form submitted has custom amounts
\* only for people of its splitBetween list, and an equal-split expense has
\* no custom amounts.
C23_CustomKeysAreSharers ==
    \A n \in DOMAIN expenses :
        IF expenses[n].splitType = "custom"
        THEN DOMAIN expenses[n].customAmounts \subseteq Range(expenses[n].splitBetween)
        ELSE ~expenses[n].hasCustom

\* C24: an expense is added to the stored list only while the roster has at
\* least two people.
C24_TwoPeopleNeeded ==
    [][Len(expenses') > Len(expenses) => Len(people) >= 2]_vars

\* an expense was submitted with two people in the roster
C24_Witness ==
    /\ Len(expenses) = 1
    /\ form.message = "success"
    /\ Len(people) = 2

\* C28: the payer and the sharers of every expense the form hands to
\* addExpense are in the roster at the moment of the submission.
C28_SubmittedRefsInRoster ==
    [][Submitted =>
          /\ SubmittedExpense.paidBy \in Range(people)
          /\ Range(SubmittedExpense.splitBetween) \subseteq Range(people)]_vars

(***************************************************************************)
(* C30: handlers of one render                                             *)
(***************************************************************************)
\* C30: no update is lost: whatever the add handlers of the current render
\* have added is in the stored roster or in the stored expense list.
C30_NoLostUpdate ==
    \A n \in DOMAIN render.added :
        IF render.added[n].kind = "person"
        THEN render.added[n].value \in Range(people)
        ELSE render.added[n].value \in Range(expenses)

=============================================================================
